---------------------------- MODULE Spec2Model ----------------------------
(***************************************************************************)
(* Model of src/c++/pingadd.cpp: main() builds the command line            *)
(* "ping -c 1 <host> 2>&1", runs it through popen, reads the pipe with     *)
(* fgets into a 128-byte buffer, appends every chunk to `result', searches *)
(* `result' with two regular expressions and returns 0, 1 or 2.            *)
(*                                                                         *)
(* Text is a sequence of characters; a character is a one-character        *)
(* string, except the byte 0 ("NUL"), the vertical tab ("VT") and the      *)
(* backquote ("BQ").                                                       *)
(* The shell, the commands it starts and the stack limit of the process    *)
(* are the environment: the commands write pieces of text into the pipe    *)
(* and may exit, or never exit.                                            *)
(***************************************************************************)
EXTENDS Integers, Sequences, FiniteSets, TLC

(***************************************************************************)
(* Bounds of the model.                                                    *)
(***************************************************************************)
\* number of pieces of text the ping process writes in one run
MaxFrags == 3
\* length of the padding piece (a run of digits without a newline)
PadLen == 70

(***************************************************************************)
(* Program constants and string literals.                                  *)
(***************************************************************************)
\* std::array<char, 128> buffer (pingadd.cpp:25)
BufSize == 128

\* Number of characters one attempt of std::regex_search can follow before
\* the recursion of the matcher exhausts the stack.  It depends on the
\* stack limit of the process (ulimit -s), which is the environment's, on
\* the build, on the size of the environment of the process and on where
\* the loader puts the stack in that run.  Seen with g++ 12.2:
\* under limits of 12 to 16 kB, under which a process starts, some runs
\* were killed after the output was read whatever the text, the empty one
\* included: no room at all
StackRoomNone == -1
\* a small room, as limits of 16 to 32 kB leave it to some runs: searches
\* that followed 22 characters or more were killed
StackRoomSmall == 21
\* under the default limit of 8 MB the build with -O2 was never killed up
\* to 26174 characters and the build of the source header (no
\* optimisation) always above 27589
StackRoomDefaultMin == 26174
StackRoomDefaultMax == 27589

\* "Usage: " (pingadd.cpp:15)
UsagePrefix ==
    <<"U", "s", "a", "g", "e", ":", " ">>

\* " <host-or-ip>\n" (pingadd.cpp:15)
UsageSuffix ==
    <<" ", "<", "h", "o", "s", "t", "-", "o", "r", "-", "i", "p", ">", "\n">>

\* "ping -c 1 " (pingadd.cpp:22)
CmdPrefix ==
    <<"p", "i", "n", "g", " ", "-", "c", " ", "1", " ">>

\* " 2>&1" (pingadd.cpp:22)
CmdSuffix ==
    <<" ", "2", ">", "&", "1">>

\* "Failed to run ping command\n" (pingadd.cpp:29)
FailedToRun ==
    <<"F", "a", "i", "l", "e", "d", " ", "t", "o", " ", "r", "u", "n", " ",
      "p", "i", "n", "g", " ", "c", "o", "m", "m", "a", "n", "d", "\n">>

\* "time=" (pingadd.cpp:41)
TimeLit ==
    <<"t", "i", "m", "e", "=">>

\* "ms" (pingadd.cpp:41)
MsLit ==
    <<"m", "s">>

\* "Average = " (pingadd.cpp:48)
AverageLit ==
    <<"A", "v", "e", "r", "a", "g", "e", " ", "=", " ">>

\* "Reply from " (pingadd.cpp:43)
ReplyFrom ==
    <<"R", "e", "p", "l", "y", " ", "f", "r", "o", "m", " ">>

\* ": time=" (pingadd.cpp:43)
ColonTime ==
    <<":", " ", "t", "i", "m", "e", "=">>

\* " ms\n" (pingadd.cpp:43)
MsLine ==
    <<" ", "m", "s", "\n">>

\* " ms (avg)\n" (pingadd.cpp:50)
MsAvgLine ==
    <<" ", "m", "s", " ", "(", "a", "v", "g", ")", "\n">>

\* "No reply / unable to parse time. Raw output:\n" (pingadd.cpp:55)
NoReplyLine ==
    <<"N", "o", " ", "r", "e", "p", "l", "y", " ", "/", " ", "u", "n", "a",
      "b", "l", "e", " ", "t", "o", " ", "p", "a", "r", "s", "e", " ", "t",
      "i", "m", "e", ".", " ", "R", "a", "w", " ", "o", "u", "t", "p", "u",
      "t", ":", "\n">>

\* "\n" written after the raw output (pingadd.cpp:56)
Newline == <<"\n">>

\* argv[0], the name the program was started under
ProgName == <<"p", "i", "n", "g", "_", "c", "m", "d">>

(***************************************************************************)
(* Character classes of the two patterns.                                  *)
(***************************************************************************)
\* [0-9]
Digit == {"0", "1", "2", "3", "4", "5", "6", "7", "8", "9"}

\* \s of the ECMAScript grammar in the "C" locale
Space == {" ", "\t", "\n", "\r", "\f", "VT"}

Min(a, b) == IF a <= b THEN a ELSE b

\* smallest element of a non-empty set of positions
Leftmost(P) == CHOOSE i \in P : \A j \in P : i <= j

\* the text `lit' occurs in s at position i
HasLit(s, i, lit) ==
    /\ i >= 1
    /\ i + Len(lit) - 1 <= Len(s)
    /\ SubSeq(s, i, i + Len(lit) - 1) = lit

\* position after the longest run of digits that starts at i
DigitsEnd(s, i) ==
    LET stops == {j \in i..Len(s) : s[j] \notin Digit}
    IN  IF stops = {} THEN Len(s) + 1 ELSE Leftmost(stops)

\* r_time, the pattern  time=([0-9]+\.?[0-9]* )\s?ms  (written here with a
\* blank before the closing parenthesis), tried at position i, every
\* quantifier taking as much as it can; reach is the position after the
\* last character the attempt has followed
r_time_at(s, i) ==
    IF ~HasLit(s, i, TimeLit) THEN [ok |-> FALSE, m1 |-> <<>>, reach |-> i]
    ELSE LET d0 == i + Len(TimeLit)
             d1 == DigitsEnd(s, d0)
         IN  IF d1 = d0 THEN [ok |-> FALSE, m1 |-> <<>>, reach |-> d0]
             ELSE LET e1 == IF d1 <= Len(s) /\ s[d1] = "." THEN d1 + 1 ELSE d1
                      e2 == DigitsEnd(s, e1)
                      e3 == IF e2 <= Len(s) /\ s[e2] \in Space
                            THEN e2 + 1 ELSE e2
                  IN  IF HasLit(s, e3, MsLit)
                      THEN [ok |-> TRUE, m1 |-> SubSeq(s, d0, e2 - 1),
                            reach |-> e3 + Len(MsLit)]
                      ELSE [ok |-> FALSE, m1 |-> <<>>, reach |-> e3]

\* r_time_win, the pattern  Average = ([0-9]+)ms  tried at position i
r_time_win_at(s, i) ==
    IF ~HasLit(s, i, AverageLit) THEN [ok |-> FALSE, m1 |-> <<>>, reach |-> i]
    ELSE LET d0 == i + Len(AverageLit)
             d1 == DigitsEnd(s, d0)
         IN  IF d1 > d0 /\ HasLit(s, d1, MsLit)
             THEN [ok |-> TRUE, m1 |-> SubSeq(s, d0, d1 - 1),
                   reach |-> d1 + Len(MsLit)]
             ELSE [ok |-> FALSE, m1 |-> <<>>, reach |-> d1]

(***************************************************************************)
(* The languages of the two patterns, as sets: every way the pattern can   *)
(* match at a position, whatever the matcher prefers.                      *)
(***************************************************************************)
\* positions after a run of at least `least' digits that starts at p
DigitRunEnds(s, p, least) == (p + least)..DigitsEnd(s, p)

\* positions where the group [0-9]+ .? [0-9]* starting at p can end
TimeGroupEnds(s, p) ==
    LET A == DigitRunEnds(s, p, 1)
        B == A \cup {a + 1 : a \in {x \in A : x <= Len(s) /\ s[x] = "."}}
    IN  UNION {DigitRunEnds(s, b, 0) : b \in B}

\* the rest of r_time after the group: an optional white space, then ms
TimeTail(s, g) ==
    \/ HasLit(s, g, MsLit)
    \/ g <= Len(s) /\ s[g] \in Space /\ HasLit(s, g + 1, MsLit)

\* the texts group 1 can capture in a match of r_time at position i
TimeCaptures(s, i) ==
    IF ~HasLit(s, i, TimeLit) THEN {}
    ELSE LET p == i + Len(TimeLit)
         IN  {SubSeq(s, p, g - 1) :
                g \in {x \in TimeGroupEnds(s, p) : TimeTail(s, x)}}

\* the texts group 1 can capture in a match of r_time_win at position i
AvgCaptures(s, i) ==
    IF ~HasLit(s, i, AverageLit) THEN {}
    ELSE LET p == i + Len(AverageLit)
         IN  {SubSeq(s, p, g - 1) :
                g \in {x \in DigitRunEnds(s, p, 1) : HasLit(s, x, MsLit)}}

TimePositions(s) == {i \in 1..Len(s) : TimeCaptures(s, i) # {}}
AvgPositions(s) == {i \in 1..Len(s) : AvgCaptures(s, i) # {}}

(***************************************************************************)
(* std::regex_search: the attempts are made from left to right and stop at *)
(* the first match.  The matcher recurses once per character it follows;   *)
(* an attempt that follows more than `room' characters exhausts the stack  *)
(* and the process is killed; with no room at all it is killed before the  *)
(* first character.                                                        *)
(***************************************************************************)
NoMatch == [ok |-> FALSE, m1 |-> <<>>, crash |-> FALSE]
Crash == [ok |-> FALSE, m1 |-> <<>>, crash |-> TRUE]

\* std::regex_search(result, m, r_time)
regex_search_time(s, room) ==
    LET hits == {i \in 1..Len(s) : r_time_at(s, i).ok}
        stop == IF hits = {} THEN Len(s) ELSE Leftmost(hits)
        over == {i \in 1..stop : r_time_at(s, i).reach - i > room}
    IN  IF room < 0 \/ over # {} THEN Crash
        ELSE IF hits = {} THEN NoMatch
        ELSE [ok |-> TRUE, m1 |-> r_time_at(s, stop).m1, crash |-> FALSE]

\* std::regex_search(result, m, r_time_win)
regex_search_win(s, room) ==
    LET hits == {i \in 1..Len(s) : r_time_win_at(s, i).ok}
        stop == IF hits = {} THEN Len(s) ELSE Leftmost(hits)
        over == {i \in 1..stop : r_time_win_at(s, i).reach - i > room}
    IN  IF room < 0 \/ over # {} THEN Crash
        ELSE IF hits = {} THEN NoMatch
        ELSE [ok |-> TRUE, m1 |-> r_time_win_at(s, stop).m1, crash |-> FALSE]

(***************************************************************************)
(* Lines 39-58: the two searches in their order, the text printed on       *)
(* standard output and the operand of the return statement; kind crash     *)
(* when a search kills the process.                                        *)
(***************************************************************************)
Report(h, res, room) ==
    LET t == regex_search_time(res, room)
        w == regex_search_win(res, room)
    IN  IF t.crash THEN [kind |-> "crash", code |-> -1, out |-> <<>>]
        ELSE IF t.ok
        THEN [kind |-> "reply", code |-> 0,
              out |-> ReplyFrom \o h \o ColonTime \o t.m1 \o MsLine]
        ELSE IF w.crash THEN [kind |-> "crash", code |-> -1, out |-> <<>>]
        ELSE IF w.ok
        THEN [kind |-> "avg", code |-> 0,
              out |-> ReplyFrom \o h \o ColonTime \o w.m1 \o MsAvgLine]
        ELSE [kind |-> "noreply", code |-> 2,
              out |-> NoReplyLine \o res \o Newline]

(***************************************************************************)
(* fgets(buffer.data(), buffer.size(), pipe.get())                         *)
(***************************************************************************)
\* position of the first newline among the first n characters, 0 if none
FirstNewline(buf, n) ==
    LET P == {i \in 1..Min(n, Len(buf)) : buf[i] = "\n"}
    IN  IF P = {} THEN 0 ELSE Leftmost(P)

\* fgets can return without waiting for more data
FgetsReady(buf, eof) ==
    \/ eof
    \/ Len(buf) >= BufSize - 1
    \/ FirstNewline(buf, BufSize - 1) > 0

\* number of characters one call stores: up to and including the first
\* newline, at most BufSize - 1
FgetsLen(buf) ==
    LET nl == FirstNewline(buf, BufSize - 1)
    IN  IF nl > 0 THEN nl ELSE Min(Len(buf), BufSize - 1)

\* result += buffer.data(): the buffer is read as a C string, up to the
\* first byte 0
CStr(chunk) ==
    LET P == {i \in 1..Len(chunk) : chunk[i] = "NUL"}
    IN  IF P = {} THEN chunk ELSE SubSeq(chunk, 1, Leftmost(P) - 1)

(***************************************************************************)
(* popen(cmd, "r") hands cmd to "sh -c".  The model covers the command     *)
(* lines made of simple commands separated by ; whose words consist of     *)
(* characters the shell takes literally, each command naming one of the    *)
(* programs of the environment, followed by the redirection 2>&1 that      *)
(* main appends.  ShellInScope says whether a command line is one of       *)
(* them; every other command line (quoting, expansions, other operators    *)
(* and redirections, reserved words, built-in commands, other programs)    *)
(* is outside the model, and the operators of this section have no value   *)
(* for it.                                                                 *)
(***************************************************************************)
Blank == {" ", "\t"}

\* characters without a meaning to the shell
PlainChars ==
    {"a", "b", "c", "d", "e", "f", "g", "h", "i", "j", "k", "l", "m", "n",
     "o", "p", "q", "r", "s", "t", "u", "v", "w", "x", "y", "z",
     "0", "1", "2", "3", "4", "5", "6", "7", "8", "9",
     "-", ".", "_", "/", ":", ",", "+", "@", "%"}

\* the programs the shell finds: ping, the one the program runs, and id
Programs == {<<"p", "i", "n", "g">>, <<"i", "d">>}

\* the command line without the redirection that main appends
ShellBody(c) == SubSeq(c, 1, Len(c) - Len(CmdSuffix))

RECURSIVE ShellSegments(_, _, _)
\* the stretches of b between the operators ;, from position i on, "from"
\* being the start of the stretch in progress
ShellSegments(b, from, i) ==
    IF i > Len(b)
    THEN <<[from |-> from, to |-> i - 1]>>
    ELSE IF b[i] = ";"
    THEN <<[from |-> from, to |-> i - 1]>> \o ShellSegments(b, i + 1, i + 1)
    ELSE ShellSegments(b, from, i + 1)

\* positions of the stretch that are not blank
SegBody(b, s) == {k \in s.from..s.to : b[k] \notin Blank}

\* the stretch holds no word
NoCommand(b, s) == SegBody(b, s) = {}

\* the text of the command of a stretch, from its first word on
CmdText(b, s) == SubSeq(b, Leftmost(SegBody(b, s)), s.to)

\* the first word of the stretch: the name of the command
CmdName(b, s) ==
    LET a == Leftmost(SegBody(b, s))
        rest == {k \in a..s.to : b[k] \in Blank}
    IN  SubSeq(b, a, IF rest = {} THEN s.to ELSE Leftmost(rest) - 1)

\* the command line is covered: it ends with the redirection of main, the
\* rest consists of plain characters, blanks and ; and every command is
\* named by one of the programs
ShellInScope(c) ==
    /\ Len(c) >= Len(CmdSuffix)
    /\ SubSeq(c, Len(c) - Len(CmdSuffix) + 1, Len(c)) = CmdSuffix
    /\ LET b == ShellBody(c)
           segs == ShellSegments(b, 1, 1)
       IN  /\ \A k \in 1..Len(b) : b[k] \in PlainChars \cup Blank \cup {";"}
           /\ \A k \in 1..Len(segs) :
                 IF NoCommand(b, segs[k]) THEN TRUE
                 ELSE CmdName(b, segs[k]) \in Programs

RECURSIVE ShellErrorFrom(_, _, _)
\* the operator the shell stops at, scanning b from position i on, or <<>>
\* if it accepts b: two ; in a row, which it reads as the one operator ;;,
\* or a ; that no command precedes (word: a word was seen since the last
\* operator)
ShellErrorFrom(b, i, word) ==
    IF i > Len(b) THEN <<>>
    ELSE IF b[i] = ";"
    THEN IF i < Len(b) /\ b[i + 1] = ";" THEN <<";", ";">>
         ELSE IF ~word THEN <<";">>
         ELSE ShellErrorFrom(b, i + 1, FALSE)
    ELSE ShellErrorFrom(b, i + 1, word \/ b[i] \notin Blank)

\* the shell rejects a covered command line and starts nothing.  After
\* the last ; the redirection alone is accepted
ShellSyntaxError(c) ==
    CASE ShellInScope(c) -> ShellErrorFrom(ShellBody(c), 1, FALSE) # <<>>

\* what the shell writes to its stderr for a covered command line: nothing,
\* or  sh: 1: Syntax error: "<operator>" unexpected
ShellMessage(c) ==
    CASE ShellInScope(c) ->
        IF ~ShellSyntaxError(c) THEN <<>>
        ELSE <<"s", "h", ":", " ", "1", ":", " ", "S", "y", "n", "t", "a",
               "x", " ", "e", "r", "r", "o", "r", ":", " ", "\"">>
             \o ShellErrorFrom(ShellBody(c), 1, FALSE)
             \o <<"\"", " ", "u", "n", "e", "x", "p", "e", "c", "t", "e",
                  "d", "\n">>

RECURSIVE ShellRunSegs(_, _, _)
\* the commands of the stretches from k on, in the order the shell starts
\* them.  The shell waits for each command before it starts the next one;
\* stdout of every command is that of the shell, the pipe; the redirection
\* 2>&1 belongs to the command of the last stretch only
ShellRunSegs(b, segs, k) ==
    IF k > Len(segs) THEN <<>>
    ELSE IF NoCommand(b, segs[k]) THEN ShellRunSegs(b, segs, k + 1)
    ELSE <<[text |-> CmdText(b, segs[k]),
            outToPipe |-> TRUE,
            errToPipe |-> (k = Len(segs))]>>
         \o ShellRunSegs(b, segs, k + 1)

\* the commands the shell starts for a covered command line
ShellRuns(c) ==
    CASE ShellInScope(c) ->
        IF ShellSyntaxError(c) THEN <<>>
        ELSE ShellRunSegs(ShellBody(c), ShellSegments(ShellBody(c), 1, 1), 1)

\* std::unique_ptr<FILE, decltype(&pclose)>: the deleter is called when
\* main returns, and only for a non-null pointer
UniquePtrDtorAlways(handle, calls) == calls + 1

UniquePtrDtor(handle, calls) ==
    IF handle = "open" THEN calls + 1 ELSE calls

\* a test that lets extra arguments through
ArgcAtLeast(n) == n >= 2

\* argc != 2 is the usage error
ArgcOk(n) == n = 2

(***************************************************************************)
(* The environment: command lines, stack limits and the output of the      *)
(* commands.                                                               *)
(***************************************************************************)
HostPlain == <<"h">>
HostInject == <<"h", ";", "i", "d">>

\* argv[1..]: no argument, one host, one host carrying a shell operator,
\* two arguments
ArgLists == {<<>>, <<HostPlain>>, <<HostInject>>, <<HostPlain, HostPlain>>}

\* the rooms the stack may leave to a search of the text s.  Every room
\* arises under some stack limit; a search is killed or not according to
\* whether it follows more characters than the room, so these rooms give
\* the outcomes of all of them.  Without a limit (ulimit -s unlimited) the
\* stack grows as the search needs and holds the whole text: Len(s)
StackRooms(s) == {StackRoomNone, StackRoomSmall, StackRoomDefaultMin,
                  StackRoomDefaultMax, Len(s)}

Pad == [i \in 1..PadLen |-> "7"]

\* pieces of text a command may write
Pieces ==
    { TimeLit \o <<"1", ".", "5", " ">> \o MsLit \o <<"\n">>,
      AverageLit \o <<"3">> \o MsLit,
      TimeLit \o Pad \o <<" ">> \o MsLit,
      <<"\n">>,
      <<"NUL">>,
      Pad }

\* what ping prints on its stderr when it cannot probe
Diagnostic(kind, h) ==
    CASE kind = "unresolved" ->
           <<"p", "i", "n", "g", ":", " ">> \o h \o
           <<":", " ", "u", "n", "k", "n", "o", "w", "n", " ", "h", "o",
             "s", "t", "\n">>
      [] kind = "denied" ->
           <<"p", "i", "n", "g", ":", " ", "s", "o", "c", "k", "e", "t", ":",
             " ", "E", "P", "E", "R", "M", "\n">>
      [] kind = "unreachable" ->
           <<"p", "i", "n", "g", ":", " ", "c", "o", "n", "n", "e", "c", "t",
             ":", " ", "E", "N", "E", "T", "U", "N", "R", "E", "A", "C", "H",
             "\n">>

FaultKinds == {"unresolved", "denied", "unreachable"}

\* the command is a ping as the program writes it
IsProbe(rec) == HasLit(rec.text, 1, CmdPrefix)

\* the host such a ping is given: its first word after -c 1
PingHost(rec) ==
    LET t == rec.text
        a == Len(CmdPrefix) + 1
        W == {k \in a..Len(t) : t[k] \notin Blank}
    IN  IF W = {} THEN <<>>
        ELSE LET w == Leftmost(W)
                 stops == {k \in w..Len(t) : t[k] \in Blank}
             IN  SubSeq(t, w, IF stops = {} THEN Len(t)
                                ELSE Leftmost(stops) - 1)

(***************************************************************************)
(* State.                                                                  *)
(***************************************************************************)
VARIABLES
    args,        \* argv[1..argc-1]
    pc,          \* position of main: start, popen, read, pclose, done,
                 \* or crashed when the process was killed
    host,        \* std::string host
    cmd,         \* std::string cmd
    pipe,        \* the FILE* held by the unique_ptr: none, null, open, closed
    result,      \* std::string result
    out,         \* text written to std::cout
    err,         \* text on the stderr stream of the program
    ret,         \* operand of the return statement in progress, -1 if none
    exitCode,    \* value returned by main, -1 if main has not returned
    popenCalls,  \* number of calls of popen
    pcloseCalls, \* number of calls of pclose
    outcomes,    \* the outcomes reported, in order
    shell,       \* the shell started by popen: none, running, exited
    plan,        \* the commands the shell starts, in order
    started,     \* number of commands of the plan started so far
    running,     \* the started commands that have not exited
    fault,       \* why ping could not probe, or "none"
    pipeBuf,     \* text written to the pipe and not yet read
    delivered,   \* all text written to the pipe
    written      \* number of pieces written to the pipe

vars == <<args, pc, host, cmd, pipe, result, out, err, ret,
          exitCode, popenCalls, pcloseCalls, outcomes, shell, plan, started,
          running, fault, pipeBuf, delivered, written>>

progVars == <<host, cmd, pipe, result, out, ret, exitCode, popenCalls,
              pcloseCalls, outcomes>>
envVars == <<shell, plan, started, running, fault, pipeBuf, delivered,
             written>>

argc == Len(args) + 1

\* the texts of the commands the shell has started
executed == [k \in 1..started |-> plan[k].text]

\* end of file on the pipe: the shell and its commands, which hold the
\* write end, have exited
Eof == shell = "exited" /\ running = {}

Init ==
    /\ args \in ArgLists
    /\ pc = "start"
    /\ host = <<>>
    /\ cmd = <<>>
    /\ pipe = "none"
    /\ result = <<>>
    /\ out = <<>>
    /\ err = <<>>
    /\ ret = -1
    /\ exitCode = -1
    /\ popenCalls = 0
    /\ pcloseCalls = 0
    /\ outcomes = <<>>
    /\ shell = "none"
    /\ plan = <<>>
    /\ started = 0
    /\ running = {}
    /\ fault = "none"
    /\ pipeBuf = <<>>
    /\ delivered = <<>>
    /\ written = 0

(***************************************************************************)
(* main                                                                    *)
(***************************************************************************)
\* lines 14-17
Usage ==
    /\ pc = "start"
    /\ ~ArgcOk(argc)
    /\ err' = err \o UsagePrefix \o ProgName \o UsageSuffix
    /\ ret' = 1
    /\ exitCode' = 1
    /\ outcomes' = Append(outcomes, "usage")
    /\ pc' = "done"
    /\ UNCHANGED <<args, host, cmd, pipe, result, out, popenCalls,
                   pcloseCalls>>
    /\ UNCHANGED envVars

\* lines 19-22
BuildCmd ==
    /\ pc = "start"
    /\ ArgcOk(argc)
    /\ host' = args[1]
    /\ cmd' = CmdPrefix \o args[1] \o CmdSuffix
    /\ pc' = "popen"
    /\ UNCHANGED <<args, pipe, result, out, err, ret, exitCode,
                   popenCalls, pcloseCalls, outcomes>>
    /\ UNCHANGED envVars

\* lines 27-31, popen returns a null pointer
PopenFail ==
    /\ pc = "popen"
    /\ popenCalls' = popenCalls + 1
    /\ pipe' = "null"
    /\ err' = err \o FailedToRun
    /\ ret' = 1
    /\ exitCode' = 1
    /\ outcomes' = Append(outcomes, "popenfail")
    /\ pcloseCalls' = UniquePtrDtor("null", pcloseCalls)
    /\ pc' = "done"
    /\ UNCHANGED <<args, host, cmd, result, out>>
    /\ UNCHANGED envVars

\* line 27, popen starts the shell with the command line
PopenOk ==
    /\ pc = "popen"
    /\ popenCalls' = popenCalls + 1
    /\ pipe' = "open"
    /\ plan' = ShellRuns(cmd)
    /\ shell' = "running"
    /\ pc' = "read"
    /\ UNCHANGED <<args, host, cmd, result, out, err, ret,
                   exitCode, pcloseCalls, outcomes, started, running, fault,
                   pipeBuf, delivered, written>>

\* lines 32-34, one iteration: fgets stores a chunk, result += buffer.data()
ReadChunk ==
    /\ pc = "read"
    /\ FgetsReady(pipeBuf, Eof)
    /\ pipeBuf # <<>>
    /\ LET n == FgetsLen(pipeBuf)
       IN  /\ result' = result \o CStr(SubSeq(pipeBuf, 1, n))
           /\ pipeBuf' = SubSeq(pipeBuf, n + 1, Len(pipeBuf))
    /\ UNCHANGED <<args, pc, host, cmd, pipe, out, err, ret,
                   exitCode, popenCalls, pcloseCalls, outcomes, shell, plan,
                   started, running, fault, delivered, written>>

\* line 32 at end of file: fgets returns nullptr; lines 39-58: the
\* searches and the report; the return statement then destroys the
\* unique_ptr, whose deleter calls pclose.  A search that exhausts the
\* stack, whose limit is the environment's, kills the process instead
SearchAndReport ==
    /\ pc = "read"
    /\ Eof
    /\ pipeBuf = <<>>
    /\ \E room \in StackRooms(result) :
          LET r == Report(host, result, room)
          IN  IF r.kind = "crash"
              THEN /\ pc' = "crashed"
                   /\ UNCHANGED <<out, ret, outcomes, pcloseCalls>>
              ELSE /\ out' = out \o r.out
                   /\ ret' = r.code
                   /\ outcomes' = Append(outcomes, r.kind)
                   /\ pcloseCalls' = UniquePtrDtor(pipe, pcloseCalls)
                   /\ pc' = "pclose"
    /\ UNCHANGED <<args, host, cmd, pipe, result, err, exitCode,
                   popenCalls>>
    /\ UNCHANGED envVars

\* pclose returns when the shell has exited, and main returns
PcloseReturn ==
    /\ pc = "pclose"
    /\ shell = "exited"
    /\ pipe' = "closed"
    /\ exitCode' = ret
    /\ pc' = "done"
    /\ UNCHANGED <<args, host, cmd, result, out, err, ret,
                   popenCalls, pcloseCalls, outcomes>>
    /\ UNCHANGED envVars

(***************************************************************************)
(* The shell and its commands.                                             *)
(***************************************************************************)
\* the shell starts the next command, after the one before it has exited
CmdStart ==
    /\ shell = "running"
    /\ started < Len(plan)
    /\ started \notin running
    /\ started' = started + 1
    /\ running' = running \cup {started + 1}
    /\ UNCHANGED <<args, pc, err, shell, plan, fault,
                   pipeBuf, delivered, written>>
    /\ UNCHANGED progVars

\* a command whose stdout or stderr is the pipe writes a piece of text
PingWrite ==
    /\ \E k \in running : plan[k].outToPipe \/ plan[k].errToPipe
    /\ written < MaxFrags
    /\ \E p \in Pieces :
          /\ pipeBuf' = pipeBuf \o p
          /\ delivered' = delivered \o p
    /\ written' = written + 1
    /\ UNCHANGED <<args, pc, err, shell, plan, started, running,
                   fault>>
    /\ UNCHANGED progVars

\* ping cannot probe: it prints a diagnostic on its stderr, which is the
\* pipe if the redirection 2>&1 belongs to ping, and exits
PingFault ==
    /\ written = 0
    /\ fault = "none"
    /\ \E k \in running :
          /\ IsProbe(plan[k])
          /\ running' = running \ {k}
          /\ \E f \in FaultKinds :
                /\ fault' = f
                /\ LET d == Diagnostic(f, PingHost(plan[k]))
                   IN  IF plan[k].errToPipe
                       THEN /\ pipeBuf' = pipeBuf \o d
                            /\ delivered' = delivered \o d
                            /\ err' = err
                       ELSE /\ err' = err \o d
                            /\ UNCHANGED <<pipeBuf, delivered>>
    /\ written' = written + 1
    /\ UNCHANGED <<args, pc, shell, plan, started>>
    /\ UNCHANGED progVars

\* a command exits
CmdExit ==
    /\ \E k \in running : running' = running \ {k}
    /\ UNCHANGED <<args, pc, err, shell, plan, started,
                   fault, pipeBuf, delivered, written>>
    /\ UNCHANGED progVars

\* the shell exits: all commands are started and have exited.  A shell
\* that rejects the command line has started none and has written its
\* message to its stderr, which is the one of the program
ShellExit ==
    /\ shell = "running"
    /\ started = Len(plan)
    /\ running = {}
    /\ shell' = "exited"
    /\ err' = err \o ShellMessage(cmd)
    /\ UNCHANGED <<args, pc, plan, started, running,
                   fault, pipeBuf, delivered, written>>
    /\ UNCHANGED progVars

Program == Usage \/ BuildCmd \/ PopenFail \/ PopenOk \/ ReadChunk
              \/ SearchAndReport \/ PcloseReturn

Next ==
    \/ Usage
    \/ BuildCmd
    \/ PopenFail
    \/ PopenOk
    \/ ReadChunk
    \/ SearchAndReport
    \/ PcloseReturn
    \/ CmdStart
    \/ PingWrite
    \/ PingFault
    \/ CmdExit
    \/ ShellExit

Spec == Init /\ [][Next]_vars

\* the program is scheduled whenever it can take a step; nothing obliges
\* the shell or its commands to write or to exit
FairSpec == Spec /\ WF_vars(Program)

(***************************************************************************)
(* Properties.                                                             *)
(***************************************************************************)
MatchesTime(s) == TimePositions(s) # {}
MatchesAvg(s) == AvgPositions(s) # {}

\* the line of a reply whose time is a capture of the leftmost match of
\* r_time in s
IsTimeLine(line, h, s) ==
    LET P == TimePositions(s)
    IN  /\ P # {}
        /\ \A n \in TimeCaptures(s, Leftmost(P)) :
              line = ReplyFrom \o h \o ColonTime \o n \o MsLine

\* the same for r_time_win, with the suffix (avg)
IsAvgLine(line, h, s) ==
    LET P == AvgPositions(s)
    IN  /\ P # {}
        /\ \A n \in AvgCaptures(s, Leftmost(P)) :
              line = ReplyFrom \o h \o ColonTime \o n \o MsAvgLine

\* the run is over: main has returned or the process was killed
Ended == pc \in {"done", "crashed"}

\* C1: a run that ends returns 0, 1 or 2: 0 exactly when popen succeeded and
\* one of the two patterns matches the captured text, 1 exactly when argc is
\* not 2 or popen failed, 2 exactly when popen succeeded and neither pattern
\* matches; while main runs no exit code exists.
C1_ExitCodes ==
    /\ ~Ended => exitCode = -1
    /\ Ended =>
         /\ exitCode \in {0, 1, 2}
         /\ exitCode = 0 <=>
              /\ argc = 2
              /\ pipe = "closed"
              /\ MatchesTime(result) \/ MatchesAvg(result)
         /\ exitCode = 1 <=> (argc # 2 \/ pipe = "null")
         /\ exitCode = 2 <=>
              /\ argc = 2
              /\ pipe = "closed"
              /\ ~MatchesTime(result)
              /\ ~MatchesAvg(result)

\* C2: a probe that fails because the host cannot be resolved, the socket
\* cannot be opened or the network is unreachable ends with exit code 1.
C2_FaultExitsOne ==
    pc = "done" /\ fault \in FaultKinds => exitCode = 1

\* C3: once the program waits for the output of the probe and the probe
\* prints nothing (the target never replies), the run eventually ends, with
\* exit code 2.
C3_NeverWaitsForever ==
    [](pc = "read" => <>(written > 0 \/ (pc = "done" /\ exitCode = 2)))

\* C4: on exit code 0 standard output is exactly one line, Reply from
\* <argv[1]>: time=<n> ms, or the same with the suffix (avg), where n is the
\* text of group 1 of the leftmost match of the pattern in the output of
\* the probe, that is in all the text the pipe delivered, character for
\* character.
C4_ReplyLine ==
    ret = 0 =>
        \/ IsTimeLine(out, args[1], delivered)
        \/ IsAvgLine(out, args[1], delivered)

\* C5: pclose is called exactly once when main returns after a successful
\* popen, on each of the three returns, never before the return statement,
\* and never when popen returned a null pointer.
C5_PipeReleased ==
    /\ pc \in {"start", "popen", "read"} => pcloseCalls = 0
    /\ pipe \in {"none", "null"} => pcloseCalls = 0
    /\ pc \in {"pclose", "done"} /\ popenCalls = 1 /\ pipe # "null" =>
         /\ pcloseCalls = 1
         /\ outcomes \in {<<"reply">>, <<"avg">>, <<"noreply">>}
    /\ pc = "done" /\ popenCalls = 1 /\ pipe # "null" => pipe = "closed"

\* a return with exit code 2 after the pipe was read
C5_Witness ==
    /\ pc = "done"
    /\ exitCode = 2
    /\ pcloseCalls = 1
    /\ delivered # <<>>

\* C6: with argc other than 2 the program writes the usage message to
\* standard error and nothing to standard output, never calls popen, runs
\* no command, and returns 1.
C6_UsageOnly ==
    argc # 2 =>
        /\ popenCalls = 0
        /\ pipe = "none"
        /\ shell = "none"
        /\ started = 0
        /\ out = <<>>
        /\ pc = "done" =>
             /\ err = UsagePrefix \o ProgName \o UsageSuffix
             /\ exitCode = 1

\* a run with two arguments that has returned
C6_Witness ==
    /\ pc = "done"
    /\ argc = 3
    /\ exitCode = 1

\* C7: popen is called at most once, with a command line that starts with
\* ping -c 1, and a run that is over has reported exactly one outcome.
C7_SingleAttempt ==
    /\ popenCalls <= 1
    /\ popenCalls = 1 => HasLit(cmd, 1, CmdPrefix)
    /\ Len(outcomes) <= 1
    /\ Ended => Len(outcomes) = 1

\* C8: when r_time matches the captured text the reply line without (avg)
\* is printed, also when r_time_win matches and matches further left; the
\* line with (avg) is printed only when r_time matches nowhere; the raw
\* output is printed only when neither pattern matches.
C8_PrimaryFirst ==
    Ended /\ pipe \in {"open", "closed"} =>
        IF MatchesTime(result)
        THEN /\ IsTimeLine(out, host, result)
             /\ outcomes = <<"reply">>
        ELSE IF MatchesAvg(result)
        THEN /\ IsAvgLine(out, host, result)
             /\ outcomes = <<"avg">>
        ELSE /\ out = NoReplyLine \o result \o Newline
             /\ outcomes = <<"noreply">>

\* C9: after the read loop result is all the text the pipe delivered, in
\* order.
C9_NothingLost ==
    pc \in {"pclose", "done", "crashed"} /\ pipe \in {"open", "closed"} =>
        result = delivered

\* C10: the shell runs at most one command, and that one is a ping.
C10_OnlyPing ==
    /\ started <= 1
    /\ \A k \in 1..started : HasLit(executed[k], 1, CmdPrefix)

TypeOK ==
    /\ pc \in {"start", "popen", "read", "pclose", "done", "crashed"}
    /\ exitCode \in {-1, 0, 1, 2}
    /\ pipe \in {"none", "null", "open", "closed"}
    /\ shell \in {"none", "running", "exited"}
    /\ running \subseteq 1..started
    /\ started <= Len(plan)
====
